---- MODULE Spec2Model ----
(***************************************************************************)
(* Model of the FreeDAIY intake API (src/main.py): the diagnostic          *)
(* endpoint GET /test and the two ingestion endpoints POST /leads and      *)
(* POST /subscribe, over the database helpers resolved at process start.   *)
(*                                                                         *)
(* Strings whose content or length matters (names, e-mail addresses, error *)
(* texts, collection names, environment values) are sequences of           *)
(* one-character strings.  Fixed literals of the source are TLA+ strings;  *)
(* the source's emoji are written in ASCII: "[ok]" for the check mark,     *)
(* "[x]" for the cross and "[!]" for the warning sign.  An f-string        *)
(* f"<literal>{value}" is the record Fmt(literal, value).                  *)
(***************************************************************************)
EXTENDS Naturals, Sequences, FiniteSets

VARIABLES database, environ, status, probe, req, calls, nCalls

vars == <<database, environ, status, probe, req, calls, nCalls>>

----------------------------------------------------------------------------
(* Bounds of the model *)

\* number of requests that may be in flight together
NumReq == 2
\* how far past the truncation length the longest error text reaches
ErrOver == 1
\* how far past the listing cap the longest collection listing reaches
CollOver == 1
\* name lengths are taken within this distance of the two length limits
NameSlack == 1

(* Constants of the program *)

MinNameLen == 2
MaxNameLen == 120
TruncLen == 60
MaxCollections == 10

----------------------------------------------------------------------------
(* Values *)

\* Python None / JSON null, a present value, and a field missing from a body
Null == [tag |-> "null"]
Val(x) == [tag |-> "val", v |-> x]
Absent == [tag |-> "absent"]

Rep(c, n) == [i \in 1..n |-> c]

Min(a, b) == IF a <= b THEN a ELSE b

\* s[:n]
Take(s, n) == SubSeq(s, 1, Min(n, Len(s)))

\* f"{lit}{arg}"
Fmt(lit, arg) == [lit |-> lit, arg |-> arg]

\* str(e) of the exceptions the external store can raise
ErrTexts == {Rep("e", n) : n \in {1, TruncLen} \cup (TruncLen + 1)..(TruncLen + ErrOver)}

Return(v) == [kind |-> "return", value |-> v]
Raise(e) == [kind |-> "raise", e |-> e]

----------------------------------------------------------------------------
(* GET /test *)

\* os.getenv(name): None when the variable is unset, else its string value
EnvValues == {Null, Val(<<>>), Val(<<"s", "1">>), Val(<<"s", "2">>)}

Environs == [DATABASE_URL : EnvValues, DATABASE_NAME : EnvValues]

\* truthiness of os.getenv(name): None and "" are falsy
Truthy(x) == x.tag = "val" /\ x.v # <<>>

PresenceFlagEcho(x) == IF Truthy(x) THEN Fmt("[ok] Set: ", x.v) ELSE Fmt("[x] Not Set", <<>>)

\* "[ok] Set" if os.getenv(name) else "[x] Not Set"
PresenceFlag(x) == IF Truthy(x) THEN Fmt("[ok] Set", <<>>) ELSE Fmt("[x] Not Set", <<>>)

\* real_db.list_collection_names() when it returns: i-th name is "c" * i
Listings == {[i \in 1..n |-> Rep("c", i)] :
               n \in {0, 1, MaxCollections} \cup (MaxCollections + 1)..(MaxCollections + CollOver)}

\* What "from database import db" and the listing probe do in one request,
\* given the condition of the database module.
ProbeOutcomes(d) ==
    IF d = "missing"
    THEN {[import |-> "fail", db |-> "none", list |-> "none", names |-> <<>>, e |-> t] : t \in ErrTexts}
    ELSE IF d = "uninitialised"
    THEN {[import |-> "ok", db |-> "none", list |-> "none", names |-> <<>>, e |-> <<>>]}
    ELSE {[import |-> "ok", db |-> "live", list |-> "ok", names |-> n, e |-> <<>>] : n \in Listings}
         \cup {[import |-> "ok", db |-> "live", list |-> "fail", names |-> <<>>, e |-> t] : t \in ErrTexts}

response0 ==
    [backend |-> "[ok] Running",
     database |-> Fmt("[x] Not Available", <<>>),
     database_url |-> Null,
     database_name |-> Null,
     connection_status |-> "Not Connected",
     collections |-> <<>>]

CollectionsAll(names) == names

\* names[:10]
CollectionsOf(names) == Take(names, MaxCollections)

\* the inner try block and its handler
ProbeDb(response, o) ==
    IF o.list = "ok"
    THEN [response EXCEPT !.collections = CollectionsOf(o.names),
                          !.database = Fmt("[ok] Connected & Working", <<>>),
                          !.connection_status = "Connected"]
    ELSE [response EXCEPT !.database = Fmt("[!] Connected but Error: ", Take(o.e, TruncLen))]

ImportFailedUncaught(response, o) == Raise(o.e)

\* the handler of the outer try block
ImportFailed(response, o) ==
    Return([response EXCEPT !.database = Fmt("[x] Error: ", Take(o.e, TruncLen))])

\* the outer try block
TryDatabase(response, o) ==
    IF o.import = "fail"
    THEN ImportFailed(response, o)
    ELSE IF o.db # "none"
    THEN Return(ProbeDb([response EXCEPT !.database = Fmt("[ok] Available", <<>>)], o))
    ELSE Return([response EXCEPT !.database = Fmt("[!] Available but not initialized", <<>>)])

test_database(o, env) ==
    LET tried == TryDatabase(response0, o)
    IN  IF tried.kind = "raise"
        THEN tried
        ELSE Return([tried.value EXCEPT !.database_url = PresenceFlag(env.DATABASE_URL),
                                        !.database_name = PresenceFlag(env.DATABASE_NAME)])

\* one GET /test request
TestDatabase ==
    /\ \E o \in ProbeOutcomes(database) :
          /\ probe' = Val(o)
          /\ status' = Val(test_database(o, environ))
    /\ UNCHANGED <<database, environ, req, calls, nCalls>>

----------------------------------------------------------------------------
(* Schemas *)

Reqs == 1..NumReq

NameLens ==
    {n \in 0..(MaxNameLen + NameSlack) :
        \/ n + NameSlack >= MinNameLen /\ n <= MinNameLen + NameSlack
        \/ n + NameSlack >= MaxNameLen}

Names == {Rep("n", n) : n \in NameLens}

Emails ==
    {<<"a", "@", "b", ".", "c">>, <<"d", "@", "b", ".", "c">>,
     <<"a", "b", ".", "c">>, <<"a", "@", "b">>}

\* EmailStr: the syntactic check of an address, reduced to its skeleton
\* (one "@", a non-empty local part, a dotted domain).  The addresses of the
\* model are already in the normal form EmailStr returns.
IsEmail(s) ==
    LET ats == {i \in 1..Len(s) : s[i] = "@"}
    IN  /\ Cardinality(ats) = 1
        /\ LET p == CHOOSE i \in ats : TRUE
               dom == SubSeq(s, p + 1, Len(s))
           IN  /\ p > 1
               /\ Len(dom) >= 3
               /\ dom[1] # "." /\ dom[Len(dom)] # "."
               /\ \E j \in 2..(Len(dom) - 1) : dom[j] = "."

NameOkNoMax(name) == Len(name) >= MinNameLen

\* Field(..., min_length=2, max_length=120)
NameOk(name) == Len(name) >= MinNameLen /\ Len(name) <= MaxNameLen

\* a field with default d
Default(x, d) == IF x.tag = "absent" THEN d ELSE x

OptionalTexts(t) == {Absent, Val(t)}

AllLeadBodies ==
    {[name |-> n, email |-> e, company |-> c, current_tools |-> x[1], message |-> x[2]] :
        n \in Names, e \in Emails, c \in OptionalTexts(<<"A", "c", "m", "e">>),
        x \in {<<Absent, Absent>>, <<Val(<<"n", "8", "n">>), Null>>}}

SmallLeadBodies ==
    {[name |-> Rep("n", MinNameLen), email |-> <<"a", "@", "b", ".", "c">>,
      company |-> Absent, current_tools |-> Absent, message |-> Absent]}

InterestLists == {<<>>, <<"ai", "crm">>, <<"crm", "ai">>}

AllSubscribeBodies ==
    {[email |-> e, interests |-> i] :
        e \in Emails, i \in {Absent, Null} \cup {Val(l) : l \in InterestLists}}

SmallSubscribeBodies ==
    {[email |-> <<"a", "@", "b", ".", "c">>, interests |-> Absent]}

\* the bodies request r may carry: the first request ranges over all of
\* them, the others over one valid body of each kind
LeadBodies(r) == IF r = 1 THEN AllLeadBodies ELSE SmallLeadBodies

SubscribeBodies(r) == IF r = 1 THEN AllSubscribeBodies ELSE SmallSubscribeBodies

LeadCreateValid(body) == NameOk(body.name) /\ IsEmail(body.email)

LeadCreate(body) ==
    [name |-> body.name,
     email |-> body.email,
     company |-> Default(body.company, Null),
     current_tools |-> Default(body.current_tools, Null),
     message |-> Default(body.message, Null)]

SubscribeCreateValid(body) == IsEmail(body.email)

SubscribeCreate(body) ==
    [email |-> body.email,
     interests |-> Default(body.interests, Val(<<>>))]

\* payload.model_dump(): the fields of the model as a dict
ModelDump(payload) == payload

Http(code, body) == [status |-> code, body |-> body]

\* the framework's answer to a body the schema rejects
ValidationFailed == Http(422, [detail |-> "validation error"])

\* the framework's answer to an exception no handler caught, or to a return
\* value the response model rejects
Unstructured == Http(500, [text |-> "Internal Server Error"])

----------------------------------------------------------------------------
(* Database helpers *)

Ok(id) == [kind |-> "ok", id |-> id, e |-> <<>>]
Failed(kind, e) == [kind |-> kind, id |-> "", e |-> e]

\* the fallback defined when "from database import ..." fails
FallbackCreateDocument == {Ok("mock-id")}

\* create_document of the database module: returns an identifier or raises
RealCreateDocument ==
    {Ok(i) : i \in {"id-1", "id-2"}}
    \cup {Failed(k, t) : k \in {"StoreUnavailable", "WriteFailed"}, t \in ErrTexts}

CreateDocumentOutcomes(d) ==
    IF d = "missing" THEN FallbackCreateDocument ELSE RealCreateDocument

----------------------------------------------------------------------------
(* POST /leads and POST /subscribe *)

InvocationsRetry(collection, doc, o) ==
    IF o.kind = "ok"
    THEN <<[collection |-> collection, data |-> doc, outcome |-> o]>>
    ELSE <<[collection |-> collection, data |-> doc, outcome |-> o],
           [collection |-> collection, data |-> doc, outcome |-> o]>>

\* the create_document calls one run of a handler makes
Invocations(collection, doc, o) ==
    <<[collection |-> collection, data |-> doc, outcome |-> o]>>

\* str(inserted_id); identifiers are modelled by their string form
Str(id) == id

LeadReceiptNoCompany(id, payload) ==
    [id |-> Str(id), name |-> payload.name, email |-> payload.email, company |-> Null]

LeadReceipt(id, payload) ==
    [id |-> Str(id), name |-> payload.name, email |-> payload.email,
     company |-> payload.company]

\* x or []
OrEmpty(x) == IF x.tag = "val" /\ x.v # <<>> THEN x ELSE Val(<<>>)

SubscribeReceiptRaw(id, payload) ==
    [id |-> Str(id), email |-> payload.email, interests |-> payload.interests]

SubscribeReceipt(id, payload) ==
    [id |-> Str(id), email |-> payload.email, interests |-> OrEmpty(payload.interests)]

\* response_model=SubscribeResponse: interests must be a list
SubscribeResponse(resp) ==
    IF resp.status = 200 /\ resp.body.interests.tag # "val" THEN Unstructured ELSE resp

HandleFailureOnlyWriteFailed(prefix, o) ==
    IF o.kind = "WriteFailed" THEN Http(500, [detail |-> Fmt(prefix, o.e)]) ELSE Unstructured

\* except Exception as e: raise HTTPException(status_code=500, detail=f"...: {e}")
HandleFailure(prefix, o) == Http(500, [detail |-> Fmt(prefix, o.e)])

CreateLeadResult(payload, o) ==
    IF o.kind = "ok"
    THEN Http(200, LeadReceipt(o.id, payload))
    ELSE HandleFailure("Failed to save lead: ", o)

SubscribeResult(payload, o) ==
    IF o.kind = "ok"
    THEN SubscribeResponse(Http(200, SubscribeReceipt(o.id, payload)))
    ELSE HandleFailure("Failed to subscribe: ", o)

NoRequest == [pc |-> "idle", route |-> "none", body |-> Null, payload |-> Null, resp |-> Null]

\* a POST /leads request arrives and its body is parsed into LeadCreate
PostLeads(r) ==
    /\ req[r].pc = "idle"
    /\ \E body \in LeadBodies(r) :
          req' = [req EXCEPT ![r] =
                    IF LeadCreateValid(body)
                    THEN [pc |-> "handler", route |-> "/leads", body |-> Val(body),
                          payload |-> Val(LeadCreate(body)), resp |-> Null]
                    ELSE [pc |-> "done", route |-> "/leads", body |-> Val(body),
                          payload |-> Null, resp |-> Val(ValidationFailed)]]
    /\ UNCHANGED <<database, environ, status, probe, calls, nCalls>>

\* a POST /subscribe request arrives and its body is parsed into SubscribeCreate
PostSubscribe(r) ==
    /\ req[r].pc = "idle"
    /\ \E body \in SubscribeBodies(r) :
          req' = [req EXCEPT ![r] =
                    IF SubscribeCreateValid(body)
                    THEN [pc |-> "handler", route |-> "/subscribe", body |-> Val(body),
                          payload |-> Val(SubscribeCreate(body)), resp |-> Null]
                    ELSE [pc |-> "done", route |-> "/subscribe", body |-> Val(body),
                          payload |-> Null, resp |-> Val(ValidationFailed)]]
    /\ UNCHANGED <<database, environ, status, probe, calls, nCalls>>

\* the handler of POST /leads
create_lead(r) ==
    /\ req[r].pc = "handler"
    /\ req[r].route = "/leads"
    /\ \E o \in CreateDocumentOutcomes(database) :
          LET payload == req[r].payload.v
              made == Invocations("lead", ModelDump(payload), o)
          IN  /\ calls' = [calls EXCEPT ![r] = @ \o made]
              /\ nCalls' = nCalls + Len(made)
              /\ req' = [req EXCEPT ![r].pc = "done",
                                    ![r].resp = Val(CreateLeadResult(payload, o))]
    /\ UNCHANGED <<database, environ, status, probe>>

\* the handler of POST /subscribe
subscribe(r) ==
    /\ req[r].pc = "handler"
    /\ req[r].route = "/subscribe"
    /\ \E o \in CreateDocumentOutcomes(database) :
          LET payload == req[r].payload.v
              made == Invocations("subscriber", ModelDump(payload), o)
          IN  /\ calls' = [calls EXCEPT ![r] = @ \o made]
              /\ nCalls' = nCalls + Len(made)
              /\ req' = [req EXCEPT ![r].pc = "done",
                                    ![r].resp = Val(SubscribeResult(payload, o))]
    /\ UNCHANGED <<database, environ, status, probe>>

----------------------------------------------------------------------------
(* Specifications *)

\* the process after start: the database module is missing (the fallback
\* helpers are in use), present with db = None, or present with a live handle
Databases == {"missing", "uninitialised", "live"}

Idle ==
    /\ status = Null
    /\ probe = Null
    /\ req = [r \in Reqs |-> NoRequest]
    /\ calls = [r \in Reqs |-> <<>>]
    /\ nCalls = 0

\* the ingestion endpoints, under any condition of the database module
Init ==
    /\ database \in Databases
    /\ environ = [DATABASE_URL |-> Null, DATABASE_NAME |-> Null]
    /\ Idle

Next ==
    \E r \in Reqs :
        \/ PostLeads(r)
        \/ PostSubscribe(r)
        \/ create_lead(r)
        \/ subscribe(r)

Spec == Init /\ [][Next]_vars

\* the diagnostic endpoint, under any condition of the database module and
\* any environment
InitStatus ==
    /\ database \in Databases
    /\ environ \in Environs
    /\ Idle

NextStatus == TestDatabase

SpecStatus == InitStatus /\ [][NextStatus]_vars

----------------------------------------------------------------------------
(* Properties *)

Submitted(r) == req[r].body.tag = "val"

Finished(r) == req[r].pc = "done"

\* a Lead body the data model rejects
InvalidLead(b) ==
    Len(b.name) < MinNameLen \/ Len(b.name) > MaxNameLen \/ ~IsEmail(b.email)

\* a Subscriber body the data model rejects
InvalidSubscriber(b) == ~IsEmail(b.email)

InvalidBody(r) ==
    \/ req[r].route = "/leads" /\ InvalidLead(req[r].body.v)
    \/ req[r].route = "/subscribe" /\ InvalidSubscriber(req[r].body.v)

\* C1: a Lead whose name is shorter than 2 or longer than 120 characters or
\* whose e-mail is invalid, and a Subscriber whose e-mail is invalid, is
\* answered with a validation failure, and create_document is never invoked
\* for that request.
C1_InvalidInputRejectedBeforePersistence ==
    \A r \in Reqs :
        Submitted(r) /\ InvalidBody(r) =>
            /\ Finished(r)
            /\ req[r].resp = Val(ValidationFailed)
            /\ calls[r] = <<>>

C1_Witness ==
    \E r \in Reqs :
        /\ Submitted(r) /\ req[r].route = "/leads"
        /\ Len(req[r].body.v.name) > MaxNameLen
        /\ IsEmail(req[r].body.v.email)
        /\ Finished(r) /\ req[r].resp.v.status = 422
        /\ nCalls > 0

StatusFields ==
    {"backend", "database", "database_url", "database_name", "connection_status",
     "collections"}

Reported == status.tag = "val" /\ status.v.kind = "return"

\* C2: GET /test never raises: under every condition of the store and every
\* environment it returns a report that holds all six fields.
C2_GetStatusNeverRaises ==
    status.tag = "val" =>
        /\ status.v.kind = "return"
        /\ DOMAIN status.v.value = StatusFields

C2_Witness ==
    /\ Reported
    /\ probe.v.import = "fail"
    /\ Len(probe.v.e) > TruncLen
    /\ environ.DATABASE_URL = Null

IsPrefix(s, t) == Len(s) <= Len(t) /\ \A i \in 1..Len(s) : s[i] = t[i]

\* tier 1, absent: resolution failed
TierAbsent(o, rep) ==
    /\ o.import = "fail"
    /\ rep.database.lit = "[x] Error: "
    /\ IsPrefix(rep.database.arg, o.e)
    /\ rep.connection_status = "Not Connected"
    /\ rep.collections = <<>>

\* tier 2, present but erroring: the listing probe failed
TierErroring(o, rep) ==
    /\ o.import = "ok" /\ o.list = "fail"
    /\ rep.database.lit = "[!] Connected but Error: "
    /\ IsPrefix(rep.database.arg, o.e)
    /\ rep.collections = <<>>

\* tier 3, fully connected: the listing probe succeeded
TierConnected(o, rep) ==
    /\ o.import = "ok" /\ o.list = "ok"
    /\ rep.database.lit = "[ok] Connected & Working"
    /\ rep.connection_status = "Connected"
    /\ Len(rep.collections) = Min(Len(o.names), MaxCollections)
    /\ IsPrefix(rep.collections, o.names)

\* the fourth outcome: the module resolved and its handle is None
TierUninitialised(o, rep) ==
    /\ o.import = "ok" /\ o.db = "none"
    /\ rep.database = Fmt("[!] Available but not initialized", <<>>)
    /\ rep.connection_status = "Not Connected"
    /\ rep.collections = <<>>

\* C3 as stated: every report is one of the three tiers absent, present but
\* erroring, fully connected.
C3_ThreeTiers ==
    status.tag = "val" =>
        /\ status.v.kind = "return"
        /\ \/ TierAbsent(probe.v, status.v.value)
           \/ TierErroring(probe.v, status.v.value)
           \/ TierConnected(probe.v, status.v.value)

\* C3 as amended: every report is exactly one of four outcomes: the three
\* tiers, or "available but not initialized" (not connected, no collections,
\* no error text) when the module resolved and its handle is None.
C3_FourTiers ==
    status.tag = "val" =>
        /\ status.v.kind = "return"
        /\ LET o == probe.v
               rep == status.v.value
               tiers == <<TierAbsent(o, rep), TierErroring(o, rep),
                          TierConnected(o, rep), TierUninitialised(o, rep)>>
           IN  Cardinality({i \in 1..4 : tiers[i]}) = 1

C3_Witness ==
    /\ Reported
    /\ database = "uninitialised"
    /\ TierUninitialised(probe.v, status.v.value)

Outcome(r) == calls[r][1].outcome

FailurePrefix(r) ==
    IF req[r].route = "/leads" THEN "Failed to save lead: " ELSE "Failed to subscribe: "

\* C4: when create_document fails for a valid Lead or Subscriber, the answer
\* is the 500 response with a detail string, the same for StoreUnavailable
\* and WriteFailed, never a receipt and never an unstructured error.
C4_PersistenceFailureIs500 ==
    \A r \in Reqs :
        Finished(r) /\ calls[r] # <<>> /\ Outcome(r).kind # "ok" =>
            /\ req[r].resp.v.status = 500
            /\ req[r].resp.v.body = [detail |-> Fmt(FailurePrefix(r), Outcome(r).e)]

C4_Witness ==
    \E r \in Reqs :
        /\ Finished(r) /\ calls[r] # <<>>
        /\ Outcome(r).kind = "StoreUnavailable"
        /\ req[r].route = "/subscribe"
        /\ req[r].resp.v.status = 500

HasDetail(r) ==
    /\ Finished(r)
    /\ req[r].resp.v.status = 500
    /\ "detail" \in DOMAIN req[r].resp.v.body

\* C5: every error message surfaced to a caller is truncated: the cause in
\* the detail of a 500 response and the cause in the status report are at
\* most TruncLen characters of the underlying error text.
C5_ErrorsTruncated ==
    /\ \A r \in Reqs : HasDetail(r) => Len(req[r].resp.v.body.detail.arg) <= TruncLen
    /\ Reported => Len(status.v.value.database.arg) <= TruncLen

OrNull(x) == IF x.tag = "val" THEN x ELSE Null

InterestsGiven(b) == IF b.interests.tag = "val" THEN b.interests.v ELSE <<>>

\* C7: the receipt of a Subscriber whose record was stored carries interests
\* as a sequence, never null: empty when the input gives none, else the
\* input's sequence in its order.
C7_ReceiptInterestsIsSequence ==
    \A r \in Reqs :
        /\ Finished(r) /\ req[r].route = "/subscribe"
        /\ calls[r] # <<>> /\ Outcome(r).kind = "ok"
        => /\ req[r].resp.v.status = 200
           /\ req[r].resp.v.body.interests = Val(InterestsGiven(req[r].body.v))

C7_Witness ==
    /\ \E r \in Reqs :
          /\ Finished(r) /\ req[r].route = "/subscribe"
          /\ req[r].body.v.interests = Absent
          /\ req[r].resp.v.status = 200
          /\ req[r].resp.v.body.interests = Val(<<>>)
    /\ \E r \in Reqs :
          /\ Finished(r) /\ req[r].route = "/subscribe"
          /\ req[r].body.v.interests = Val(<<"crm", "ai">>)
          /\ req[r].resp.v.status = 200

Collection(r) == IF req[r].route = "/leads" THEN "lead" ELSE "subscriber"

\* the answer request r gets carries its own fields and its own call's result
OwnAnswer(r) ==
    LET resp == req[r].resp.v
    IN  /\ resp.status \in {200, 500}
        /\ resp.status = 200 =>
              /\ Outcome(r).kind = "ok"
              /\ resp.body.id = Outcome(r).id
              /\ resp.body.email = req[r].body.v.email
        /\ resp.status = 500 =>
              /\ Outcome(r).kind # "ok"
              /\ resp.body.detail.arg = Outcome(r).e

\* C8: every valid submission makes exactly one create_document call, to
\* "lead" or "subscriber", with its own record; a failed call is not tried
\* again and equal submissions are not merged, so n valid submissions make n
\* calls, and a request's call and answer are its own.
C8_ExactlyOneAttempt ==
    /\ \A r \in Reqs : ~Finished(r) => calls[r] = <<>>
    /\ \A r \in Reqs :
          Finished(r) /\ ~InvalidBody(r) =>
              /\ Len(calls[r]) = 1
              /\ calls[r][1].collection = Collection(r)
              /\ calls[r][1].data = req[r].payload.v
              /\ OwnAnswer(r)
    /\ nCalls = Cardinality({r \in Reqs : Finished(r) /\ ~InvalidBody(r)})

C8_Witness ==
    \E r1, r2 \in Reqs :
        /\ r1 # r2
        /\ Finished(r1) /\ Finished(r2)
        /\ req[r1].body = req[r2].body
        /\ req[r1].route = req[r2].route
        /\ Outcome(r1).kind = "WriteFailed"
        /\ Outcome(r2).kind = "ok"
        /\ nCalls = 2

\* a configuration value is present: set and not empty
Present(x) == x.tag = "val" /\ Len(x.v) > 0

Flag(b) == IF b THEN Fmt("[ok] Set", <<>>) ELSE Fmt("[x] Not Set", <<>>)

SamePresence(e1, e2) ==
    /\ Present(e1.DATABASE_URL) <=> Present(e2.DATABASE_URL)
    /\ Present(e1.DATABASE_NAME) <=> Present(e2.DATABASE_NAME)

\* C9: database_url and database_name are each one of the two fixed flags,
\* decided by the presence of the configuration value alone, whatever the
\* store does; an environment that differs only in the values of the
\* variables that are set gives the same report.
C9_PresenceFlagsOnly ==
    Reported =>
        /\ status.v.value.database_url = Flag(Present(environ.DATABASE_URL))
        /\ status.v.value.database_name = Flag(Present(environ.DATABASE_NAME))
        /\ \A e2 \in Environs :
              SamePresence(environ, e2) => test_database(probe.v, e2) = status.v

C9_Witness ==
    /\ Reported
    /\ environ.DATABASE_URL = Val(<<"s", "1">>)
    /\ environ.DATABASE_NAME = Val(<<>>)
    /\ status.v.value.database_url = Flag(TRUE)
    /\ status.v.value.database_name = Flag(FALSE)
    /\ probe.v.list = "fail"

\* C10: the record a valid Subscriber passes to create_document carries
\* interests as a sequence of strings, never null, equal to the interests
\* of the receipt.
C10_StoredInterestsIsSequence ==
    \A r \in Reqs :
        Finished(r) /\ req[r].route = "/subscribe" /\ calls[r] # <<>> =>
            /\ calls[r][1].data.interests.tag = "val"
            /\ req[r].resp.v.status = 200 =>
                  calls[r][1].data.interests = req[r].resp.v.body.interests

====
